---- MODULE Spec2Model ----
(***************************************************************************)
(* Face identity lifecycle and recognition engine of face-reco:            *)
(* FaceRecognitionSystem (src/face_recognizer.py) and the Flask request    *)
(* layer that drives it (src/app.py).                                      *)
(*                                                                         *)
(* Conventions of the model                                                *)
(*   - a name is a sequence of one-character strings, so that str.lower()  *)
(*     is computed character by character;                                 *)
(*   - name_map (a Python dict, insertion ordered) is a sequence of        *)
(*     records [pid, pname] with pairwise distinct pid;                    *)
(*   - the face_data directory is the set of its file names, a file name   *)
(*     being the character sequence f"{person_id}_{timestamp}.png";        *)
(*   - an image is the pair <<n1, n2>> of the face counts the strict and   *)
(*     the relaxed cascade pass find in it;                                *)
(*   - the wall clock `now` counts milliseconds and never runs backwards;  *)
(*   - None is the integer -1 where the code holds an id or None.          *)
(***************************************************************************)
EXTENDS Integers, Sequences, FiniteSets, TLC

\* ------------------------------------------------------------------ bounds
MaxClock == 1
MaxId == 1
MaxFaces == 2
MaxSamples == 2
MaxBoxes == 2
MaxShots == 2

\* --------------------------------------------------------- program constants
ConfidenceThreshold == 65
MinTrainSamples == 2
DefaultKey == -1
FullScore == 100

None == -1

\* ------------------------------------------------------------- input alphabet
Names == { <<"A", "l">>, <<"a", "L">>, <<"B", "o">> }
\* the relaxed pass is run, and its count matters, only when the strict pass finds 0
Images == { <<n, 0>> : n \in 0..MaxFaces } \cup { <<0, n>> : n \in 1..MaxFaces }

\* ------------------------------------------------------------------ strings
UpperChars == <<"A", "B", "L", "O">>
LowerChars == <<"a", "b", "l", "o">>
DigitChars == <<"0", "1", "2", "3", "4", "5", "6", "7", "8", "9">>

\* str.lower() on one character
LowerChar(c) ==
    IF \E i \in DOMAIN UpperChars : UpperChars[i] = c
    THEN LowerChars[CHOOSE i \in DOMAIN UpperChars : UpperChars[i] = c]
    ELSE c

\* str.lower()
Lower(s) == [i \in DOMAIN s |-> LowerChar(s[i])]

\* str(n), as used by the f-strings
RECURSIVE Digits(_)
Digits(n) ==
    IF n < 0 THEN <<"-">> \o Digits(0 - n)
    ELSE IF n < 10 THEN <<DigitChars[n + 1]>>
    ELSE Digits(n \div 10) \o <<DigitChars[(n % 10) + 1]>>

\* str.startswith
StartsWith(s, p) == Len(p) <= Len(s) /\ SubSeq(s, 1, Len(p)) = p

\* str.endswith
EndsWith(s, p) == Len(p) <= Len(s) /\ SubSeq(s, Len(s) - Len(p) + 1, Len(s)) = p

\* int(text) for a non-empty digit sequence
RECURSIVE ParseInt(_)
ParseInt(s) ==
    IF Len(s) = 0 THEN 0
    ELSE 10 * ParseInt(SubSeq(s, 1, Len(s) - 1))
         + ((CHOOSE i \in DOMAIN DigitChars : DigitChars[i] = s[Len(s)]) - 1)

\* s.split("_")[0]
FirstField(s) ==
    IF \E i \in DOMAIN s : s[i] = "_"
    THEN SubSeq(s, 1, (CHOOSE i \in DOMAIN s :
                          s[i] = "_" /\ \A j \in 1..(i - 1) : s[j] # "_") - 1)
    ELSE s

PngSuffix == <<".", "p", "n", "g">>

\* filename = f"{person_id}_{timestamp}.png"
FileName(pid, ts) == Digits(pid) \o <<"_">> \o Digits(ts) \o PngSuffix

\* (a variant that takes no file for the user's)
MatchesUserNone(filename, pid) == FALSE
\* (a variant that takes every file for the user's)
MatchesUserAny(filename, pid) == TRUE
\* filename.startswith(f"{person_id_to_delete}_")
MatchesUser(filename, pid) == StartsWith(filename, Digits(pid) \o <<"_">>)

\* person_id = int(os.path.split(image_path)[-1].split("_")[0])
SampleId(filename) == ParseInt(FirstField(filename))

\* ----------------------------------------------------------------- name_map
Keys(nm) == { nm[i].pid : i \in DOMAIN nm }
Values(nm) == { nm[i].pname : i \in DOMAIN nm }

\* name_map.get(pid, default)
Get(nm, pid, default) ==
    IF pid \in Keys(nm)
    THEN nm[CHOOSE i \in DOMAIN nm : nm[i].pid = pid].pname
    ELSE default

\* name_map[pid] = name
SetItem(nm, pid, name) ==
    IF pid \in Keys(nm)
    THEN [i \in DOMAIN nm |-> IF nm[i].pid = pid THEN [pid |-> pid, pname |-> name] ELSE nm[i]]
    ELSE Append(nm, [pid |-> pid, pname |-> name])

\* del name_map[pid]   (pid is a key)
DelItem(nm, pid) == SelectSeq(nm, LAMBDA e : e.pid # pid)

SetMax(S) == CHOOSE m \in S : \A x \in S : x <= m

\* (a variant that compares the names as they are written)
FindByNameExact(nm, name) ==
    IF \E i \in DOMAIN nm : nm[i].pname = name
    THEN nm[CHOOSE i \in DOMAIN nm :
              nm[i].pname = name /\ \A j \in 1..(i - 1) : nm[j].pname # name].pid
    ELSE None
\* the for/break loop over name_map.items(): the first id whose name matches
FindByName(nm, name) ==
    IF \E i \in DOMAIN nm : Lower(nm[i].pname) = Lower(name)
    THEN nm[CHOOSE i \in DOMAIN nm :
              /\ Lower(nm[i].pname) = Lower(name)
              /\ \A j \in 1..(i - 1) : Lower(nm[j].pname) # Lower(name)].pid
    ELSE None

\* max(self.name_map.keys(), default=-1) + 1
NextId(nm) == (IF Keys(nm) = {} THEN DefaultKey ELSE SetMax(Keys(nm))) + 1

\* --------------------------------------------------------------- detection
\* detect_faces: the strict pass, and the relaxed pass when it finds nothing
DetectFaces(img) == IF img[1] = 0 THEN img[2] ELSE img[1]

\* ------------------------------------------------------------------- state
VARIABLES
    name_map,       \* self.name_map
    face_data,      \* the files of self.face_data_path
    recognizer,     \* what self.recognizer was last trained on: label -> samples
    is_trained,     \* self.is_trained
    last_trained,   \* self.last_trained (None, or the clock at save_model)
    db_file,        \* face_database.pkl
    model_file,     \* recognizer.yml
    now,            \* the wall clock, in ms
    ret,            \* the (success, message) pair of the last call
    last,           \* which call ran last, and on what
    max_assigned,   \* history: the largest id register_face ever created
    fresh,          \* a second engine constructed over the same files
    last_detected_names,    \* self.last_detected_names
    shown,          \* what process_frame has drawn on the frame it returned
    threads,        \* the request threads: each one's call, position and locals
    at_fork,        \* history: name_map and face_data when the threads started
    new_since,      \* history: the ids created since recognizer.train last ran
    training,       \* a thread is inside self.recognizer.train
    inference,      \* the stream thread inside process_frame: position and locals
    camera,         \* app.camera: "absent" (None), "closed" or "open"
    init_error,     \* INITIALIZATION_ERROR is set
    reconnect,      \* the thread serving POST /camera_reconnect: where it is, and
                    \* the attempts of initialize_camera it has left
    face_system,    \* app.face_system is an engine (not None)
    latest_frame,   \* app.latest_frame
    lock,           \* who holds app.lock
    run_processing, \* app.run_processing
    main,           \* the main thread: "init", "serving", "stopping", "joined"
    capture,        \* the capture_frames thread: position and locals
    streams         \* the stream_generator of each /video_feed response

engine == <<name_map, recognizer, is_trained, last_trained, new_since>>
disk == <<face_data, db_file, model_file>>
frames == <<last_detected_names, shown>>
conc == <<threads, at_fork>>
live == <<training, inference>>
app == <<camera, init_error, reconnect, face_system, latest_frame, lock, run_processing, main,
         capture, streams>>
outer == <<live, app>>
vars == <<engine, disk, now, ret, last, max_assigned, fresh, frames, conc, outer>>

NoFile == [exists |-> FALSE, kind |-> "dict", data |-> <<>>]
NoEngine == [built |-> FALSE, raised |-> FALSE, name_map |-> <<>>, is_trained |-> FALSE]
Threads == {1, 2}
NoOutcome == [ok |-> TRUE, msg |-> <<>>]
NoRequest == [op |-> "none", name |-> <<>>, img |-> <<0, 0>>]
NoIter == [used |-> 0, pos |-> 0]
\* a request thread: its request, where it is, and its locals (person_id, the
\* loop iterator, the listed files still ahead, the files removed or read so
\* far, the pickle in the file buffer, the clock reading, the answer)
Idle == [call |-> NoRequest, pc |-> "idle", pid |-> None, it |-> NoIter, listing |-> {},
         taken |-> {}, buf |-> <<>>, ts |-> 0, ret |-> NoOutcome]
Streams == {"stream 1", "stream 2"}
\* a single /video_feed response
Viewer == {"stream 1"}
\* a frame is an array: `buf` names the array, `shot` the picture in it (-1 for
\* a picture the app made itself) and `drawn` what has been drawn over it
NoFrame == [buf |-> "none", shot |-> -1, drawn |-> <<>>]
NotStarted == [pc |-> "out", frame |-> NoFrame, count |-> 0]
\* a stream_generator: where it is, its local frame, and the faces
\* process_frame has still to go through
NoStream == [pc |-> "out", frame |-> NoFrame, faces |-> <<>>]
NoReconnect == [pc |-> "idle", left |-> 0]
NoInference == [pc |-> "out", faces |-> 0, face |-> 0]
NoFork == [forked |-> FALSE, name_map |-> <<>>, face_data |-> {}]
NoCall == [op |-> "none", name |-> <<>>, faces |-> 0, created |-> FALSE, pid |-> None,
           added |-> 0, was_trained |-> FALSE, saved |-> FALSE, failed |-> {},
           fitted |-> FALSE, frame |-> <<>>, failAt |-> 0]

\* ------------------------------------------------------------- persistence
\* open(db_path, 'wb') has run: the file exists and is empty, pickle.load
\* raises EOFError on it
Truncated == [exists |-> TRUE, kind |-> "unreadable", data |-> <<>>]

\* how a save_database call goes: the file is written, open(db_path, 'wb')
\* raises, or pickle.dump raises after the open
SaveOutcomes == {"saved", "open fails", "write fails"}

\* save_database: open(db_path, 'wb') empties the file and pickle.dump writes
\* the pickle of nm.  Whatever raises is logged and swallowed: when open
\* raises the file is as it was before the call (the old content, or no
\* file), when the write raises it stays as open left it
SaveDatabase(nm, old, how) ==
    IF how = "saved" THEN [exists |-> TRUE, kind |-> "dict", data |-> nm]
    ELSE IF how = "write fails" THEN Truncated
    ELSE old

\* ---------------------------------------------------------------- messages
FoundMsg(n) == <<"Found ">> \o Digits(n)
                 \o <<" faces. Please ensure only one face is in view.">>
SavedMsg(name) == <<"Saved sample for ">> \o name
DeletedMsg(name, n) == <<"Deleted ">> \o name \o <<" and ">> \o Digits(n) \o <<" samples">>
TrainedMsg(n) == <<"Model trained on ">> \o Digits(n) \o <<" samples">>
NoSamplesMsg == <<"Training failed: No face samples found">>
TooFewMsg == <<"Training failed: Need at least 2 face samples">>
\* (followed by the text of the exception)
TrainingErrorMsg == <<"Training error: ">>
NotFoundMsg == <<"User not found">>

\* s occurs in m as a run of consecutive elements
Contains(m, s) ==
    \E i \in 1..(Len(m) - Len(s) + 1) : SubSeq(m, i, i + Len(s) - 1) = s

\* ------------------------------------------------------------ register_face
\* (a variant that turns away only the images with no face)
RegisterFaceLenient(nm, fd, img, name, ts) ==
    LET n == DetectFaces(img)
        found == FindByName(nm, name)
        pid == IF found = None THEN NextId(nm) ELSE found
    IN  IF n = 0
        THEN [ok |-> FALSE, msg |-> FoundMsg(n), name_map |-> nm, face_data |-> fd,
              created |-> FALSE, pid |-> None]
        ELSE [ok |-> TRUE, msg |-> SavedMsg(name),
              name_map |-> IF found = None THEN SetItem(nm, pid, name) ELSE nm,
              face_data |-> fd \cup {FileName(pid, ts)},
              created |-> (found = None), pid |-> pid]

\* The whole of register_face on name_map nm and directory fd, with the
\* clock reading ts taken at line 119.
RegisterFace(nm, fd, img, name, ts) ==
    LET n == DetectFaces(img)
        found == FindByName(nm, name)
        pid == IF found = None THEN NextId(nm) ELSE found
    IN  IF n # 1
        THEN [ok |-> FALSE, msg |-> FoundMsg(n), name_map |-> nm, face_data |-> fd,
              created |-> FALSE, pid |-> None]
        ELSE [ok |-> TRUE, msg |-> SavedMsg(name),
              name_map |-> IF found = None THEN SetItem(nm, pid, name) ELSE nm,
              face_data |-> fd \cup {FileName(pid, ts)},
              created |-> (found = None), pid |-> pid]

\* -------------------------------------------------------------- train_model
\* image_paths: the .png files of the directory
ImagePaths(fd) == { f \in fd : EndsWith(f, PngSuffix) }

\* (a variant that is content with one sample)
EnoughSamplesOne(samples) == Cardinality(samples) >= 1
EnoughSamples(samples) == Cardinality(samples) >= MinTrainSamples

\* save_model: recognizer.save, then last_trained = now; an error in save is
\* logged and swallowed, and last_trained keeps its value
SaveModel(rec, oldFile, oldStamp, ts, writeOk) ==
    IF writeOk
    THEN [model_file |-> TRUE, last_trained |-> ts]
    ELSE [model_file |-> oldFile, last_trained |-> oldStamp]

\* ids of line 151, as the recognizer keeps them: how many samples per label
\* (the empty function for a recognizer never trained)
Labels(paths) ==
    [l \in { SampleId(f) : f \in paths } |->
        Cardinality({ f \in paths : SampleId(f) = l })]

\* face_samples after the loop of lines 144-154: the listed files cv2.imread
\* decodes.  On a file of `bad` imread returns None, or the iteration raises
\* and the inner except logs a warning; either way the loop goes on to the
\* next file and the file gives no sample.
FaceSamples(paths, bad) == paths \ bad

\* The whole of train_model.  `bad` are the files that give no sample, fitOk
\* is whether recognizer.train returns (it raises otherwise) and writeOk
\* whether recognizer.save does.  The tests come in the order of the code: no
\* .png file at all (141), fewer than 2 samples loaded (156), then
\* recognizer.train (159), whose exception lands in the outer except
\* (166-168) before save_model and is_trained = True are reached; the
\* classifier is taken to be what it was when recognizer.train raises.
TrainModel(fd, rec, trained, stamp, mfile, ts, writeOk, bad, fitOk) ==
    LET paths == ImagePaths(fd)
        face_samples == FaceSamples(paths, bad)
        saved == SaveModel(Labels(face_samples), mfile, stamp, ts, writeOk)
        keep(m) == [ok |-> FALSE, msg |-> m, recognizer |-> rec, is_trained |-> trained,
                    last_trained |-> stamp, model_file |-> mfile,
                    samples |-> Cardinality(face_samples)]
    IN  IF paths = {} THEN keep(NoSamplesMsg)
        ELSE IF ~EnoughSamples(face_samples) THEN keep(TooFewMsg)
        ELSE IF ~fitOk THEN keep(TrainingErrorMsg)
        ELSE [ok |-> TRUE, msg |-> TrainedMsg(Cardinality(face_samples)),
              recognizer |-> Labels(face_samples),
              is_trained |-> TRUE, last_trained |-> saved.last_trained,
              model_file |-> saved.model_file, samples |-> Cardinality(face_samples)]

\* -------------------------------------------------------------- delete_user
\* The whole of delete_user; os.remove fails on the files of `stuck`.
DeleteUser(nm, fd, name, stuck) ==
    LET pid == FindByName(nm, name)
        mine == { f \in fd : MatchesUser(f, pid) }
        gone == mine \ stuck
    IN  IF pid = None
        THEN [ok |-> FALSE, msg |-> NotFoundMsg, name_map |-> nm, face_data |-> fd,
              pid |-> None, failed |-> {}]
        ELSE [ok |-> TRUE, msg |-> DeletedMsg(name, Cardinality(gone)),
              name_map |-> DelItem(nm, pid), face_data |-> fd \ gone,
              pid |-> pid, failed |-> mine \cap stuck]

\* ------------------------------------------------- __init__ and the loading
\* self.logger is assigned at line 29, after load_database_and_model has run
\* at line 26: while loading, the attribute does not exist.
HasLoggerDuringLoad == FALSE

\* load_database_and_model on the fields __init__ has just set
\* (name_map = {}, is_trained = False).  A logger call without a logger
\* raises AttributeError; inside the try it lands in the except block, whose
\* own logger.error call then raises out of the method.
LoadDatabaseAndModel(db, mfile) ==
    LET readFails == db.exists /\ db.kind = "unreadable"
        nm1 == IF db.exists /\ db.kind = "dict" THEN db.data ELSE <<>>
        logs1 == db.exists                    \* logger.info / logger.warning
        fail1 == readFails \/ (logs1 /\ ~HasLoggerDuringLoad)
        logs2 == mfile                        \* logger.info
        fail2 == logs2 /\ ~HasLoggerDuringLoad
        inExcept == fail1 \/ fail2
    IN  IF ~inExcept
        THEN [built |-> TRUE, raised |-> FALSE, name_map |-> nm1, is_trained |-> mfile]
        ELSE IF HasLoggerDuringLoad
        THEN [built |-> TRUE, raised |-> FALSE, name_map |-> <<>>, is_trained |-> FALSE]
        ELSE [built |-> FALSE, raised |-> TRUE, name_map |-> <<>>, is_trained |-> FALSE]

\* ------------------------------------------------------------ process_frame
Unknown == <<"Unknown">>
Green == <<0, 255, 0>>
Red == <<0, 0, 255>>

\* Distances are carried in halves (34.5 is 69), so that round() has work to do.
\* round(): Python rounds a tie to the even neighbour
Round(halves) ==
    IF halves % 2 = 0 THEN halves \div 2
    ELSE LET lo == (halves - 1) \div 2
         IN  IF lo % 2 = 0 THEN lo ELSE lo + 1

Min2(a, b) == IF a <= b THEN a ELSE b
Max2(a, b) == IF a >= b THEN a ELSE b

\* (a variant without the clamp)
ConfidenceUnclamped(dist) == Round(2 * FullScore - dist)
\* confidence = max(0, min(100, round(100 - conf)))
Confidence(dist) == Max2(0, Min2(FullScore, Round(2 * FullScore - dist)))

\* lines 211-219: the (name, confidence) of one face whose crop the recognizer
\* answers with face = [label, dist]
Recognize(nm, trained, face) ==
    IF ~trained THEN <<Unknown, 0>>
    ELSE IF Confidence(face.dist) > ConfidenceThreshold
    THEN <<Get(nm, face.label, Unknown), Confidence(face.dist)>>
    ELSE <<Unknown, Confidence(face.dist)>>

\* lines 224-229: the box and the label drawn for one face
Annotation(entry) ==
    [color |-> IF entry[1] # Unknown THEN Green ELSE Red,
     label |-> IF entry[1] # Unknown
               THEN entry[1] \o <<" (">> \o Digits(entry[2]) \o <<"%)">>
               ELSE entry[1]]

\* The whole of process_frame on a frame whose detected faces are `frame`;
\* recognizer.predict raises on face number failAt (0: on none).  The faces
\* before it are recorded and drawn, on the caller's frame; the except block
\* returns that frame.
ProcessFrame(nm, trained, frame, failAt) ==
    LET handled == IF trained /\ failAt > 0 THEN failAt - 1 ELSE Len(frame)
        entries == [i \in 1..handled |-> Recognize(nm, trained, frame[i])]
    IN  [names |-> entries,
         shown |-> [i \in 1..handled |-> Annotation(entries[i])],
         raised |-> (handled < Len(frame))]

\* ------------------------------------------------------------------ actions
Init ==
    /\ name_map = <<>>
    /\ face_data = {}
    /\ recognizer = <<>>
    /\ new_since = {}
    /\ is_trained = FALSE
    /\ last_trained = None
    /\ db_file = NoFile
    /\ model_file = FALSE
    /\ now = 0
    /\ ret = NoOutcome
    /\ last = NoCall
    /\ max_assigned = None
    /\ fresh = NoEngine
    /\ last_detected_names = <<>>
    /\ shown = <<>>
    /\ threads = [t \in Threads |-> Idle]
    /\ at_fork = NoFork
    /\ training = FALSE
    /\ inference = NoInference
    /\ camera = "absent"
    /\ init_error = FALSE
    /\ reconnect = NoReconnect
    /\ face_system = FALSE
    /\ latest_frame = NoFrame
    /\ lock = "free"
    /\ run_processing = TRUE
    /\ main = "init"
    /\ capture = NotStarted
    /\ streams = [s \in Streams |-> NoStream]

\* time passes
Tick ==
    /\ now < MaxClock
    /\ now' = now + 1
    /\ last' = [NoCall EXCEPT !.op = "tick"]
    /\ UNCHANGED <<engine, disk, ret, max_assigned, fresh, frames, conc, outer>>

\* FaceRecognitionSystem.register_face(image, name)
DoRegisterFace(img, name, how) ==
    \E r \in {RegisterFace(name_map, face_data, img, name, now)} :
        /\ r.created => r.pid <= MaxId
        /\ Cardinality(r.face_data) <= MaxSamples
        /\ name_map' = r.name_map
        /\ face_data' = r.face_data
        /\ db_file' = IF r.created THEN SaveDatabase(r.name_map, db_file, how) ELSE db_file
        /\ max_assigned' = IF r.created /\ r.pid > max_assigned THEN r.pid ELSE max_assigned
        /\ ret' = [ok |-> r.ok, msg |-> r.msg]
        /\ last' = [NoCall EXCEPT !.op = "register", !.name = IF r.ok THEN name ELSE <<>>,
                                  !.faces = DetectFaces(img),
                                  !.created = r.created, !.pid = r.pid,
                                  !.added = Cardinality(r.face_data \ face_data)]
        /\ fresh' = NoEngine
        /\ new_since' = IF r.created THEN new_since \cup {r.pid} ELSE new_since
        /\ UNCHANGED <<recognizer, is_trained, last_trained, model_file, now, frames, conc, outer>>

\* FaceRecognitionSystem.train_model()
DoTrainModel(writeOk, bad, fitOk) ==
    \E r \in {TrainModel(face_data, recognizer, is_trained, last_trained, model_file,
                       now, writeOk, bad, fitOk)} :
        /\ recognizer' = r.recognizer
        /\ new_since' = IF r.ok THEN {} ELSE new_since
        /\ is_trained' = r.is_trained
        /\ last_trained' = r.last_trained
        /\ model_file' = r.model_file
        /\ ret' = [ok |-> r.ok, msg |-> r.msg]
        /\ last' = [NoCall EXCEPT !.op = "train", !.was_trained = is_trained,
                                  !.saved = r.ok /\ writeOk,
                                  !.failed = bad, !.fitted = fitOk]
        /\ fresh' = NoEngine
        /\ UNCHANGED <<name_map, face_data, db_file, now, max_assigned, frames, conc, outer>>

\* FaceRecognitionSystem.delete_user(name_to_delete)
DoDeleteUser(name, stuck, how) ==
    \E r \in {DeleteUser(name_map, face_data, name, stuck)} :
        /\ name_map' = r.name_map
        /\ face_data' = r.face_data
        /\ db_file' = IF r.ok THEN SaveDatabase(r.name_map, db_file, how) ELSE db_file
        /\ ret' = [ok |-> r.ok, msg |-> r.msg]
        /\ last' = [NoCall EXCEPT !.op = "delete", !.name = IF r.ok THEN name ELSE <<>>,
                                  !.pid = r.pid,
                                  !.was_trained = is_trained, !.failed = r.failed]
        /\ fresh' = NoEngine
        /\ new_since' = new_since \ {r.pid}
        /\ UNCHANGED <<recognizer, is_trained, last_trained, model_file, now, max_assigned,
                       frames, conc, outer>>

\* line 291 of the route: face_system.is_trained = False
MarkUntrained(t) == FALSE

\* the route DELETE /users/<name> of app.py: delete_user, then train_model
\* when identities remain and is_trained = False when none does
RouteDeleteUser(name, stuck, how, modelOk, bad, fitOk) ==
    \E d \in {DeleteUser(name_map, face_data, name, stuck)} :
    \E t \in {TrainModel(d.face_data, recognizer, is_trained, last_trained, model_file,
                         now, modelOk, bad, fitOk)} :
    LET retrain == d.ok /\ Len(d.name_map) > 0
        forget == d.ok /\ Len(d.name_map) = 0
    IN  /\ name_map' = d.name_map
        /\ face_data' = d.face_data
        /\ db_file' = IF d.ok THEN SaveDatabase(d.name_map, db_file, how) ELSE db_file
        /\ recognizer' = IF retrain THEN t.recognizer ELSE recognizer
        /\ new_since' = IF retrain /\ t.ok THEN {} ELSE new_since \ {d.pid}
        /\ is_trained' = IF retrain THEN t.is_trained
                         ELSE IF forget THEN MarkUntrained(is_trained) ELSE is_trained
        /\ last_trained' = IF retrain THEN t.last_trained ELSE last_trained
        /\ model_file' = IF retrain THEN t.model_file ELSE model_file
        /\ ret' = [ok |-> d.ok,
                   msg |-> IF retrain /\ ~t.ok
                           THEN d.msg \o <<" | WARNING: Post-deletion retrain failed: ">> \o t.msg
                           ELSE d.msg]
        /\ last' = [NoCall EXCEPT !.op = "route_delete",
                                  !.name = IF d.ok THEN name ELSE <<>>, !.pid = d.pid,
                                  !.was_trained = is_trained, !.failed = d.failed,
                                  !.saved = retrain /\ t.ok /\ modelOk]
        /\ fresh' = NoEngine
        /\ UNCHANGED <<now, max_assigned, frames, conc, outer>>

\* FaceRecognitionSystem() constructed anew over the files on disk
Reload ==
    /\ fresh' = LoadDatabaseAndModel(db_file, model_file)
    /\ last' = [NoCall EXCEPT !.op = "reload"]
    /\ UNCHANGED <<engine, disk, now, ret, max_assigned, frames, conc, outer>>

\* face_database.pkl as something other than the engine left it: a file
\* pickle.load raises on, or the pickle of a value that is no dict
DamagedKinds == {"unreadable", "list"}
DamageDatabase(kind) ==
    /\ db_file' = [exists |-> TRUE, kind |-> kind, data |-> <<>>]
    /\ last' = [NoCall EXCEPT !.op = "damage"]
    /\ fresh' = NoEngine
    /\ UNCHANGED <<engine, face_data, model_file, now, ret, max_assigned, frames, conc, outer>>

\* FaceRecognitionSystem.process_frame(frame)
DoProcessFrame(frame, failAt) ==
    \E r \in {ProcessFrame(name_map, is_trained, frame, failAt)} :
        /\ last_detected_names' = r.names
        /\ shown' = r.shown
        /\ last' = [NoCall EXCEPT !.op = "process", !.frame = frame, !.failAt = failAt]
        /\ UNCHANGED <<engine, disk, now, ret, max_assigned, fresh, conc, outer>>

\* the sample files of name's identity: the ones os.remove may fail on
FilesOf(name) ==
    IF FindByName(name_map, name) = None THEN {}
    ELSE { f \in face_data : MatchesUser(f, FindByName(name_map, name)) }

\* what recognizer.predict may answer: a label it was trained on, or -1, with a
\* distance (in halves): -1.0, 34.0, 34.5, 35.0, 105.0
Distances == { -2, 68, 69, 70, 210 }
Predictions ==
    [label : (DOMAIN recognizer) \cup {-1}, dist : Distances]
Frames ==
    IF is_trained
    THEN UNION { [1..n -> Predictions] : n \in 0..MaxBoxes }
    ELSE { [i \in 1..n |-> [label |-> -1, dist |-> 0]] : n \in 0..MaxBoxes }

\* ---------------------------------------------------------- request threads
\* app.run(threaded=True) serves each request on a thread of its own, and the
\* engine takes no lock: a thread can be suspended between any two statements
\* of a method, and inside a statement wherever the interpreter lets another
\* thread run (a file operation, a cv2 call).  Each step below is one access
\* to what the threads share, with the computation on locals that leads to it.

\* the requests: POST /register (register_face), DELETE /users/<name>
\* (delete_user and what the route does after it) and POST /retrain
\* (train_model); a registration carries an image with one face or with none
Requests ==
    [op : {"register"}, name : Names, img : {<<1, 0>>, <<0, 0>>}]
        \cup [op : {"delete"}, name : Names, img : {<<0, 0>>}]
        \cup {[op |-> "train", name |-> <<>>, img |-> <<0, 0>>]}

\* where a method starts
FirstStep(op) ==
    IF op = "register" THEN "lookup" ELSE IF op = "delete" THEN "find" ELSE "list"

\* thread t returns: its locals go, the clock reading of its file name stays
Return(t, ok, msg) ==
    [threads EXCEPT ![t] = [Idle EXCEPT !.call = threads[t].call, !.pc = "done",
                                        !.ts = threads[t].ts,
                                        !.ret = [ok |-> ok, msg |-> msg]]]

Goto(t, pc) == [threads EXCEPT ![t].pc = pc]

ErrorMsg(what) == <<"Error: ">> \o what
ChangedSizeMsg == ErrorMsg(<<"dictionary changed size during iteration">>)
RetrainFailedPart == <<" | WARNING: Post-deletion retrain failed: ">>

\* iter(self.name_map.items()): the iterator remembers the size of the dict
NewIter(nm) == [used |-> Len(nm), pos |-> 0]

\* One turn of `for pid, pname in self.name_map.items()` with the test of the
\* loop body.  next() raises RuntimeError when the dict no longer has the size
\* it had when the iterator was made; otherwise it hands out the item at the
\* iterator's position, or ends the loop after the last one.
IterNext(nm, it, name) ==
    IF Len(nm) # it.used THEN [kind |-> "changed", pid |-> None]
    ELSE IF it.pos >= Len(nm) THEN [kind |-> "end", pid |-> None]
    ELSE IF Lower(nm[it.pos + 1].pname) = Lower(name)
    THEN [kind |-> "match", pid |-> nm[it.pos + 1].pid]
    ELSE [kind |-> "next", pid |-> None]

\* two requests arrive together
Fork ==
    /\ ~at_fork.forked
    /\ \E calls \in [Threads -> Requests] :
          threads' = [t \in Threads |->
                         [Idle EXCEPT !.call = calls[t], !.pc = FirstStep(calls[t].op)]]
    /\ at_fork' = [forked |-> TRUE, name_map |-> name_map, face_data |-> face_data]
    /\ last' = [NoCall EXCEPT !.op = "fork"]
    /\ ret' = NoOutcome
    /\ UNCHANGED <<engine, disk, now, max_assigned, fresh, frames, outer>>

\* register_face, lines 94-107: the face count, then the iterator of the loop
RegisterLookup(t) ==
    LET n == DetectFaces(threads[t].call.img)
    IN  /\ threads[t].pc = "lookup"
        /\ threads' = IF n # 1 THEN Return(t, FALSE, FoundMsg(n))
                      ELSE [threads EXCEPT ![t] = [@ EXCEPT !.pc = "search",
                                                            !.it = NewIter(name_map)]]
        /\ UNCHANGED <<engine, disk, now, ret, last, max_assigned, fresh, frames, at_fork, outer>>

\* register_face, lines 107-110: one turn of the search for the name; the
\* RuntimeError of a dict that changed size lands in the except of line 127
RegisterNext(t) ==
    \E r \in {IterNext(name_map, threads[t].it, threads[t].call.name)} :
        /\ threads[t].pc = "search"
        /\ threads' =
              IF r.kind = "changed" THEN Return(t, FALSE, ChangedSizeMsg)
              ELSE IF r.kind = "end" THEN Goto(t, "newid")
              ELSE IF r.kind = "match"
              THEN [threads EXCEPT ![t] = [@ EXCEPT !.pc = "stamp", !.pid = r.pid]]
              ELSE [threads EXCEPT ![t].it.pos = @ + 1]
        /\ UNCHANGED <<engine, disk, now, ret, last, max_assigned, fresh, frames, at_fork, outer>>

\* register_face, line 113: the id computed from the keys of name_map
RegisterNewId(t) ==
    /\ threads[t].pc = "newid"
    /\ threads' = [threads EXCEPT ![t] = [@ EXCEPT !.pc = "insert", !.pid = NextId(name_map)]]
    /\ UNCHANGED <<engine, disk, now, ret, last, max_assigned, fresh, frames, at_fork, outer>>

\* register_face, line 114: the identity stored
RegisterInsert(t) ==
    /\ threads[t].pc = "insert"
    /\ name_map' = SetItem(name_map, threads[t].pid, threads[t].call.name)
    /\ max_assigned' = IF threads[t].pid > max_assigned THEN threads[t].pid ELSE max_assigned
    /\ threads' = Goto(t, "open")
    /\ new_since' = new_since \cup {threads[t].pid}
    /\ UNCHANGED <<recognizer, is_trained, last_trained, disk, now, ret,
                   last, fresh, frames, at_fork, outer>>

\* save_database, line 57: open(db_path, 'wb') leaves the file empty
SaveOpen(t) ==
    /\ threads[t].pc = "open"
    /\ db_file' = Truncated
    /\ threads' = Goto(t, "dump")
    /\ UNCHANGED <<engine, face_data, model_file, now, ret, last, max_assigned, fresh,
                   frames, at_fork, outer>>

\* save_database, line 58: pickle.dump puts name_map, as it is now, into the
\* buffer of the file object
SaveDump(t) ==
    /\ threads[t].pc = "dump"
    /\ threads' = [threads EXCEPT ![t] = [@ EXCEPT !.pc = "close", !.buf = name_map]]
    /\ UNCHANGED <<engine, disk, now, ret, last, max_assigned, fresh, frames, at_fork, outer>>

\* save_database, line 57 (end of the with block): the buffer is written from
\* the start of the file; on to line 116 of register_face or to line 196 of
\* delete_user
SaveClose(t) ==
    /\ threads[t].pc = "close"
    /\ db_file' = SaveDatabase(threads[t].buf, db_file, "saved")
    /\ threads' = [threads EXCEPT ![t] = [@ EXCEPT
                      !.pc = IF threads[t].call.op = "register" THEN "stamp" ELSE "route",
                      !.buf = <<>>]]
    /\ UNCHANGED <<engine, face_data, model_file, now, ret, last, max_assigned, fresh,
                   frames, at_fork, outer>>

\* register_face, line 119: the clock is read
RegisterStamp(t) ==
    /\ threads[t].pc = "stamp"
    /\ threads' = [threads EXCEPT ![t] = [@ EXCEPT !.pc = "write", !.ts = now]]
    /\ UNCHANGED <<engine, disk, now, ret, last, max_assigned, fresh, frames, at_fork, outer>>

\* register_face, lines 120-125: the sample written under the id and the
\* clock reading
RegisterWrite(t) ==
    /\ threads[t].pc = "write"
    /\ face_data' = face_data \cup {FileName(threads[t].pid, threads[t].ts)}
    /\ threads' = Return(t, TRUE, SavedMsg(threads[t].call.name))
    /\ UNCHANGED <<engine, db_file, model_file, now, ret, last, max_assigned, fresh,
                   frames, at_fork, outer>>

\* delete_user, lines 172-173: the iterator of the loop
DeleteFind(t) ==
    /\ threads[t].pc = "find"
    /\ threads' = [threads EXCEPT ![t] = [@ EXCEPT !.pc = "scan", !.it = NewIter(name_map)]]
    /\ UNCHANGED <<engine, disk, now, ret, last, max_assigned, fresh, frames, at_fork, outer>>

\* delete_user, lines 173-179: one turn of the search for the name; the
\* RuntimeError of a dict that changed size lands in the except of line 200
DeleteNext(t) ==
    \E r \in {IterNext(name_map, threads[t].it, threads[t].call.name)} :
        /\ threads[t].pc = "scan"
        /\ threads' =
              IF r.kind = "changed" THEN Return(t, FALSE, ChangedSizeMsg)
              ELSE IF r.kind = "end" THEN Return(t, FALSE, NotFoundMsg)
              ELSE IF r.kind = "match"
              THEN [threads EXCEPT ![t] = [@ EXCEPT !.pc = "listdir", !.pid = r.pid]]
              ELSE [threads EXCEPT ![t].it.pos = @ + 1]
        /\ UNCHANGED <<engine, disk, now, ret, last, max_assigned, fresh, frames, at_fork, outer>>

\* delete_user, lines 183-184: os.listdir answers with the files of this
\* moment; the loop will stop at those that carry the id
DeleteListdir(t) ==
    LET mine == { f \in face_data : MatchesUser(f, threads[t].pid) }
    IN  /\ threads[t].pc = "listdir"
        /\ threads' = [threads EXCEPT ![t] = [@ EXCEPT
                          !.pc = IF mine = {} THEN "del" ELSE "remove",
                          !.listing = mine, !.taken = {}]]
        /\ UNCHANGED <<engine, disk, now, ret, last, max_assigned, fresh, frames, at_fork, outer>>

\* delete_user, lines 184-190: os.remove on one listed file of the id, in the
\* order os.listdir gave (any order); a file that is gone makes os.remove
\* raise, which the loop logs and passes over without counting
DeleteRemove(t) ==
    /\ threads[t].pc = "remove"
    /\ \E f \in threads[t].listing :
          /\ face_data' = face_data \ {f}
          /\ threads' = [threads EXCEPT ![t] = [@ EXCEPT
                            !.pc = IF threads[t].listing = {f} THEN "del" ELSE "remove",
                            !.listing = @ \ {f},
                            !.taken = IF f \in face_data THEN @ \cup {f} ELSE @]]
    /\ UNCHANGED <<engine, db_file, model_file, now, ret, last, max_assigned, fresh,
                   frames, at_fork, outer>>

\* delete_user, line 193: del name_map[pid]; it raises KeyError when the key
\* is gone, and line 202 returns the error
DeleteDel(t) ==
    LET pid == threads[t].pid
        there == pid \in Keys(name_map)
    IN  /\ threads[t].pc = "del"
        /\ name_map' = IF there THEN DelItem(name_map, pid) ELSE name_map
        /\ threads' = IF there THEN Goto(t, "open")
                      ELSE Return(t, FALSE, ErrorMsg(Digits(pid)))
        /\ new_since' = new_since \ {pid}
        /\ UNCHANGED <<recognizer, is_trained, last_trained, disk, now, ret,
                       last, max_assigned, fresh, frames, at_fork, outer>>

\* delete_user, lines 196-198, and the route of app.py, lines 279-285:
\* delete_user has returned its message and the route tests name_map; with
\* identities left it goes on to train_model, with none to line 291
RouteAfterDelete(t) ==
    LET msg == DeletedMsg(threads[t].call.name, Cardinality(threads[t].taken))
    IN  /\ threads[t].pc = "route"
        /\ threads' = [threads EXCEPT ![t] = [@ EXCEPT
                          !.pc = IF Len(name_map) > 0 THEN "list" ELSE "forget",
                          !.listing = {}, !.taken = {},
                          !.ret = [ok |-> TRUE, msg |-> msg]]]
        /\ UNCHANGED <<engine, disk, now, ret, last, max_assigned, fresh, frames, at_fork, outer>>

\* the route of app.py, lines 291-294: face_system.is_trained = False,
\* whatever name_map holds by now, and the answer
RouteForget(t) ==
    /\ threads[t].pc = "forget"
    /\ is_trained' = MarkUntrained(is_trained)
    /\ threads' = Return(t, TRUE, threads[t].ret.msg)
    /\ UNCHANGED <<name_map, recognizer, last_trained, new_since, disk, now, ret, last,
                   max_assigned, fresh, frames, at_fork, outer>>

\* train_model has returned (ok, msg): POST /retrain answers with it, the
\* DELETE route with delete_user's message and, after a failure, the warning
TrainReturn(t, ok, msg) ==
    IF threads[t].call.op = "delete"
    THEN Return(t, TRUE, IF ok THEN threads[t].ret.msg
                         ELSE threads[t].ret.msg \o RetrainFailedPart \o msg)
    ELSE Return(t, ok, msg)

\* train_model, lines 134-142: the .png files of this moment
TrainList(t) ==
    /\ threads[t].pc = "list"
    /\ threads' = IF ImagePaths(face_data) = {} THEN TrainReturn(t, FALSE, NoSamplesMsg)
                  ELSE [threads EXCEPT ![t] = [@ EXCEPT !.pc = "read",
                                                        !.listing = ImagePaths(face_data),
                                                        !.taken = {}]]
    /\ UNCHANGED <<engine, disk, now, ret, last, max_assigned, fresh, frames, at_fork, outer>>

\* train_model, lines 144-154: cv2.imread on one listed file, in the order
\* os.listdir gave (any order); for a file that is gone it gives None and the
\* loop passes over it
TrainRead(t) ==
    /\ threads[t].pc = "read"
    /\ \E f \in threads[t].listing :
          threads' = [threads EXCEPT ![t] = [@ EXCEPT
                         !.pc = IF threads[t].listing = {f} THEN "fit" ELSE "read",
                         !.listing = @ \ {f},
                         !.taken = IF f \in face_data THEN @ \cup {f} ELSE @]]
    /\ UNCHANGED <<engine, disk, now, ret, last, max_assigned, fresh, frames, at_fork, outer>>

\* train_model, lines 156-159: too few samples read, or recognizer.train is
\* entered; a cv2 call runs with the interpreter lock released
TrainEnter(t) ==
    /\ threads[t].pc = "fit"
    /\ IF EnoughSamples(threads[t].taken)
       THEN /\ training' = TRUE
            /\ threads' = Goto(t, "training")
       ELSE /\ training' = training
            /\ threads' = TrainReturn(t, FALSE, TooFewMsg)
    /\ UNCHANGED <<engine, disk, now, ret, last, max_assigned, fresh, frames, at_fork,
                   inference, app>>

\* train_model, line 159: recognizer.train returns; the recognizer holds what
\* this call gave it
TrainLeave(t) ==
    /\ threads[t].pc = "training"
    /\ training' = (\E u \in Threads \ {t} : threads[u].pc = "training")
    /\ recognizer' = Labels(threads[t].taken)
    /\ new_since' = {}
    /\ threads' = Goto(t, "save")
    /\ UNCHANGED <<name_map, is_trained, last_trained, disk, now, ret, last, max_assigned,
                   fresh, frames, at_fork, inference, app>>

\* save_model, line 65: recognizer.save writes recognizer.yml
TrainSave(t) ==
    /\ threads[t].pc = "save"
    /\ model_file' = SaveModel(recognizer, model_file, last_trained, now, TRUE).model_file
    /\ threads' = Goto(t, "clock")
    /\ UNCHANGED <<engine, face_data, db_file, now, ret, last, max_assigned, fresh,
                   frames, at_fork, outer>>

\* save_model, line 66, right-hand side: datetime.now() is read and formatted
TrainClock(t) ==
    /\ threads[t].pc = "clock"
    /\ threads' = [threads EXCEPT ![t] = [@ EXCEPT !.pc = "stamp_model", !.ts = now]]
    /\ UNCHANGED <<engine, disk, now, ret, last, max_assigned, fresh, frames, at_fork, outer>>

\* save_model, line 66, the assignment: last_trained becomes the time this
\* thread read, whatever another thread has stored since
TrainStamp(t) ==
    /\ threads[t].pc = "stamp_model"
    /\ last_trained' = threads[t].ts
    /\ threads' = Goto(t, "mark")
    /\ UNCHANGED <<name_map, recognizer, is_trained, new_since, disk, now, ret, last,
                   max_assigned, fresh, frames, at_fork, outer>>

\* train_model, lines 161-164: is_trained = True and the message
TrainMark(t) ==
    /\ threads[t].pc = "mark"
    /\ is_trained' = TRUE
    /\ threads' = TrainReturn(t, TRUE, TrainedMsg(Cardinality(threads[t].taken)))
    /\ UNCHANGED <<name_map, recognizer, last_trained, new_since, disk, now, ret, last,
                   max_assigned, fresh, frames, at_fork, outer>>

\* ------------------------------------------------- inference while training
\* The stream thread calls process_frame while a request thread is in
\* train_model.  cv2 calls run with the interpreter lock released, so
\* recognizer.train and recognizer.predict each take time: one step enters the
\* call and another returns from it.

\* a POST /retrain arrives
RetrainRequest ==
    /\ ~at_fork.forked
    /\ threads' = [threads EXCEPT ![1] = [Idle EXCEPT !.call = [op |-> "train", name |-> <<>>,
                                                                img |-> <<0, 0>>],
                                                      !.pc = "list"]]
    /\ at_fork' = [forked |-> TRUE, name_map |-> name_map, face_data |-> face_data]
    /\ last' = [NoCall EXCEPT !.op = "fork"]
    /\ ret' = NoOutcome
    /\ UNCHANGED <<engine, disk, now, max_assigned, fresh, frames, outer>>

\* process_frame, lines 206-208: n faces detected, last_detected_names = []
ProcessBegin(n) ==
    /\ at_fork.forked
    /\ inference.pc = "out"
    /\ inference' = [pc |-> "check", faces |-> n, face |-> 1]
    /\ last_detected_names' = <<>>
    /\ shown' = <<>>
    /\ UNCHANGED <<engine, disk, now, ret, last, max_assigned, fresh, conc, training, app>>

\* process_frame, lines 210-214 and 221-231: the next face; predict is entered
\* for it when is_trained, it is recorded as Unknown when not, and the frame
\* is returned after the last one
ProcessCheck ==
    /\ inference.pc = "check"
    /\ IF inference.face > inference.faces
       THEN /\ inference' = NoInference
            /\ UNCHANGED frames
       ELSE IF is_trained
       THEN /\ inference' = [inference EXCEPT !.pc = "predicting"]
            /\ UNCHANGED frames
       ELSE /\ inference' = [inference EXCEPT !.face = @ + 1]
            /\ last_detected_names' = Append(last_detected_names, <<Unknown, 0>>)
            /\ shown' = Append(shown, Annotation(<<Unknown, 0>>))
    /\ UNCHANGED <<engine, disk, now, ret, last, max_assigned, fresh, conc, training, app>>

\* process_frame, lines 215-229: predict returns `answer`; the face is
\* recorded and drawn
ProcessPredicted(answer) ==
    LET entry == Recognize(name_map, TRUE, answer)
    IN  /\ inference.pc = "predicting"
        /\ inference' = [inference EXCEPT !.pc = "check", !.face = @ + 1]
        /\ last_detected_names' = Append(last_detected_names, entry)
        /\ shown' = Append(shown, Annotation(entry))
        /\ UNCHANGED <<engine, disk, now, ret, last, max_assigned, fresh, conc, training, app>>

\* process_frame, lines 215 and 233-235: predict raises; the except block logs
\* the error and returns the frame with what was drawn on it for the faces
\* before this one, and last_detected_names holds those faces only
ProcessRaised ==
    /\ inference.pc = "predicting"
    /\ inference' = NoInference
    /\ UNCHANGED <<engine, disk, now, ret, last, max_assigned, fresh, frames, conc,
                   training, app>>

\* ------------------------------------------- the capture and stream threads
\* src/app.py.  The capture thread (capture_frames) stores a copy of every
\* frame the camera returns in the global latest_frame; each /video_feed
\* response runs a stream_generator, which copies latest_frame, has the engine
\* annotate the copy and yields it encoded.  The main thread starts the app,
\* serves requests and, at shutdown, clears run_processing and joins the
\* capture thread.  Every time.sleep returns, and a thread touches nothing
\* shared while it sleeps: the step before a sleep leads to the statement
\* that follows it.

\* everything the capture and stream threads leave alone
engine_side == <<engine, disk, now, ret, last, max_assigned, fresh, conc, live>>

CameraStates == {"absent", "closed", "open"}
\* cv2.VideoCapture(...) returns an opened camera, returns one that is not
\* opened, or raises
OpenOutcomes == {"open", "closed", "raises"}
\* the attempts initialize_camera goes through on linux, lines 45-64: the
\* three platform-agnostic ones and V4L2
Attempts == 4
ReadOutcomes == {"frame", "no frame", "raises"}
EncodeOutcomes == {"encoded", "not encoded", "raises"}

\* (a variant that hands the same array back)
FrameShare(f, holder) == f
\* ndarray.copy(): a new array, held by the caller alone, with the same content
FrameCopy(f, holder) == [f EXCEPT !.buf = holder]

\* np.zeros(...) with a text put on it, lines 146-151 and 160-161
Placard(holder, text) == [buf |-> holder, shot |-> -1, drawn |-> <<text>>]

\* two references to one array
SameArray(f, g) == f.buf = g.buf /\ f.shot = g.shot

\* cv2.rectangle / cv2.putText write into the array they are given
Draw(f, marks) == [f EXCEPT !.drawn = @ \o marks]

\* (a loop that never looks at the flag)
RunningAlways == TRUE
\* `while run_processing:` at lines 120 and 142
Running == run_processing

\* lines 177-188: initialize_camera leaves the camera in state cam; with a
\* working camera the engine is constructed; the capture thread is started
Startup(cam) ==
    /\ main = "init"
    /\ \E built \in {cam = "open" /\ LoadDatabaseAndModel(db_file, model_file).built} :
          /\ face_system' = built
          /\ init_error' = ~built
    /\ camera' = cam
    /\ capture' = [capture EXCEPT !.pc = "loop"]
    /\ main' = "serving"
    /\ UNCHANGED <<engine_side, frames, reconnect, latest_frame, lock, run_processing,
                   streams>>

\* camera.release() on the object the global camera refers to
Released(cam) == IF cam = "open" THEN "closed" ELSE cam

\* initialize_camera, line 59: on to the next attempt, or out of the loop
\* after the last one
NextAttempt(left) ==
    IF left > 1 THEN [pc |-> "attempt", left |-> left - 1] ELSE [pc |-> "fail", left |-> 0]

\* POST /camera_reconnect, lines 228-230: the request is accepted while the
\* app serves; its thread runs on whatever the main thread does next
ReconnectArrive ==
    /\ main = "serving"
    /\ reconnect.pc = "idle"
    /\ reconnect' = [pc |-> "arrived", left |-> 0]
    /\ UNCHANGED <<engine_side, frames, camera, init_error, face_system, latest_frame, lock,
                   run_processing, main, capture, streams>>

\* camera_reconnect_logic, lines 106-109: a camera object is released
ReconnectRelease ==
    /\ reconnect.pc = "arrived"
    /\ camera' = Released(camera)
    /\ reconnect' = [pc |-> "attempt", left |-> Attempts]
    /\ UNCHANGED <<engine_side, frames, init_error, face_system, latest_frame, lock,
                   run_processing, main, capture, streams>>

\* initialize_camera, lines 66-69 and 89-92: camera = cv2.VideoCapture(...) of
\* one attempt, opened or not; when the call raises, camera is what it was and
\* is released if it is an object
ReconnectOpen(outcome) ==
    /\ reconnect.pc = "attempt"
    /\ IF outcome = "raises"
       THEN /\ camera' = Released(camera)
            /\ reconnect' = NextAttempt(reconnect.left)
       ELSE /\ camera' = outcome
            /\ reconnect' = [reconnect EXCEPT !.pc = "opened"]
    /\ UNCHANGED <<engine_side, frames, init_error, face_system, latest_frame, lock,
                   run_processing, main, capture, streams>>

\* initialize_camera, lines 71-74: a camera that is not opened sends the loop
\* to its next attempt; an opened one is asked for a frame
ReconnectCheck(works) ==
    /\ reconnect.pc = "opened"
    /\ reconnect' = IF camera # "open" THEN NextAttempt(reconnect.left)
                    ELSE IF works THEN [pc |-> "clear", left |-> 0]
                    ELSE [reconnect EXCEPT !.pc = "drop"]
    /\ UNCHANGED <<engine_side, frames, camera, init_error, face_system, latest_frame, lock,
                   run_processing, main, capture, streams>>

\* initialize_camera, lines 86-87 and 89-92: the camera that gave no frame is
\* released
ReconnectDrop ==
    /\ reconnect.pc = "drop"
    /\ camera' = Released(camera)
    /\ reconnect' = NextAttempt(reconnect.left)
    /\ UNCHANGED <<engine_side, frames, init_error, face_system, latest_frame, lock,
                   run_processing, main, capture, streams>>

\* initialize_camera, lines 76-83: INITIALIZATION_ERROR = None, the request
\* answers
ReconnectClear ==
    /\ reconnect.pc = "clear"
    /\ init_error' = FALSE
    /\ reconnect' = NoReconnect
    /\ UNCHANGED <<engine_side, frames, camera, face_system, latest_frame, lock,
                   run_processing, main, capture, streams>>

\* initialize_camera, lines 95-101: every attempt failed, INITIALIZATION_ERROR
\* is set, the request answers
ReconnectFail ==
    /\ reconnect.pc = "fail"
    /\ init_error' = TRUE
    /\ reconnect' = NoReconnect
    /\ UNCHANGED <<engine_side, frames, camera, face_system, latest_frame, lock,
                   run_processing, main, capture, streams>>

\* GET /video_feed: a response starts iterating a new stream_generator
StreamStart(s) ==
    /\ main = "serving"
    /\ streams[s].pc = "out"
    /\ streams' = [streams EXCEPT ![s].pc = "loop"]
    /\ UNCHANGED <<engine_side, frames, camera, init_error, reconnect, face_system, latest_frame,
                   lock, run_processing, main, capture>>

\* line 303, after app.run has returned
Shutdown ==
    /\ main = "serving"
    /\ run_processing' = FALSE
    /\ main' = "stopping"
    /\ UNCHANGED <<engine_side, frames, camera, init_error, reconnect, face_system, latest_frame,
                   lock, capture, streams>>

\* lines 304-307: join returns once the capture thread has ended, then the
\* camera is released
Join ==
    /\ main = "stopping"
    /\ capture.pc = "exited"
    /\ main' = "joined"
    /\ camera' = Released(camera)
    /\ UNCHANGED <<engine_side, frames, init_error, reconnect, face_system, latest_frame, lock,
                   run_processing, capture, streams>>

\* capture_frames, line 120: the loop test
CaptureLoop ==
    /\ capture.pc = "loop"
    /\ capture' = [capture EXCEPT !.pc = IF Running THEN "camera" ELSE "exited"]
    /\ UNCHANGED <<engine_side, frames, camera, init_error, reconnect, face_system, latest_frame,
                   lock, run_processing, main, streams>>

\* lines 121-123: the camera test; without an opened camera the thread sleeps
\* and goes round the loop
CaptureCamera ==
    /\ capture.pc = "camera"
    /\ capture' = [capture EXCEPT !.pc = IF camera = "open" THEN "read" ELSE "loop"]
    /\ UNCHANGED <<engine_side, frames, camera, init_error, reconnect, face_system, latest_frame,
                   lock, run_processing, main, streams>>

\* lines 125-127, 130-132 and 136-138: camera.read() returns a frame, returns
\* ret = False, or raises; only an opened camera gives a frame
CaptureRead(outcome) ==
    /\ capture.pc = "read"
    /\ outcome = "frame" => camera = "open"
    /\ capture' = IF outcome = "frame"
                  THEN [pc |-> "acquire",
                        frame |-> [buf |-> "camera", shot |-> capture.count, drawn |-> <<>>],
                        count |-> (capture.count + 1) % MaxShots]
                  ELSE [capture EXCEPT !.pc = "loop"]
    /\ UNCHANGED <<engine_side, frames, camera, init_error, reconnect, face_system, latest_frame,
                   lock, run_processing, main, streams>>

\* line 128: `with lock:` is entered when the lock is free
CaptureAcquire ==
    /\ capture.pc = "acquire"
    /\ lock = "free"
    /\ lock' = "capture"
    /\ capture' = [capture EXCEPT !.pc = "store"]
    /\ UNCHANGED <<engine_side, frames, camera, init_error, reconnect, face_system, latest_frame,
                   run_processing, main, streams>>

\* line 129: latest_frame = frame.copy()
CaptureStore ==
    /\ capture.pc = "store"
    /\ latest_frame' = FrameCopy(capture.frame, "latest")
    /\ capture' = [capture EXCEPT !.pc = "release", !.frame = NoFrame]
    /\ UNCHANGED <<engine_side, frames, camera, init_error, reconnect, face_system, lock,
                   run_processing, main, streams>>

\* lines 128-134: the with block is left, the lock is released; time.sleep
CaptureRelease ==
    /\ capture.pc = "release"
    /\ lock' = "free"
    /\ capture' = [capture EXCEPT !.pc = "loop"]
    /\ UNCHANGED <<engine_side, frames, camera, init_error, reconnect, face_system, latest_frame,
                   run_processing, main, streams>>

\* stream_generator, line 142: the loop test
StreamLoop(s) ==
    /\ streams[s].pc = "loop"
    /\ streams' = [streams EXCEPT ![s].pc = IF Running THEN "test" ELSE "exited"]
    /\ UNCHANGED <<engine_side, frames, camera, init_error, reconnect, face_system, latest_frame,
                   lock, run_processing, main, capture>>

\* lines 144-148: `if INITIALIZATION_ERROR:`; with the error set the frame
\* with CAMERA ERROR on it is made
StreamTest(s) ==
    /\ streams[s].pc = "test"
    /\ streams' =
          IF init_error
          THEN [streams EXCEPT ![s].pc = "error", ![s].frame = Placard(s, "CAMERA ERROR")]
          ELSE [streams EXCEPT ![s].pc = "frame"]
    /\ UNCHANGED <<engine_side, frames, camera, init_error, reconnect, face_system, latest_frame,
                   lock, run_processing, main, capture>>

\* lines 149-151 and 172-174: INITIALIZATION_ERROR.split; when the error has
\* been cleared since line 144 it is None.split, the AttributeError is caught
\* at line 172 and no part is made
StreamErrorText(s) ==
    /\ streams[s].pc = "error"
    /\ streams' =
          IF init_error
          THEN [streams EXCEPT ![s].pc = "encode"]
          ELSE [streams EXCEPT ![s].pc = "loop", ![s].frame = NoFrame]
    /\ UNCHANGED <<engine_side, frames, camera, init_error, reconnect, face_system, latest_frame,
                   lock, run_processing, main, capture>>

\* lines 152 and 158-161: `elif latest_frame is not None:`, evaluated without
\* the lock: on to the copy, or the loading frame
StreamFrameTest(s) ==
    /\ streams[s].pc = "frame"
    /\ streams' =
          IF latest_frame # NoFrame
          THEN [streams EXCEPT ![s].pc = "acquire"]
          ELSE [streams EXCEPT ![s].pc = "encode", ![s].frame = Placard(s, "Initializing...")]
    /\ UNCHANGED <<engine_side, frames, camera, init_error, reconnect, face_system, latest_frame,
                   lock, run_processing, main, capture>>

\* line 153: `with lock:` is entered when the lock is free
StreamAcquire(s) ==
    /\ streams[s].pc = "acquire"
    /\ lock = "free"
    /\ lock' = s
    /\ streams' = [streams EXCEPT ![s].pc = "copy"]
    /\ UNCHANGED <<engine_side, frames, camera, init_error, reconnect, face_system, latest_frame,
                   run_processing, main, capture>>

\* line 154: frame = latest_frame.copy()
StreamCopy(s) ==
    /\ streams[s].pc = "copy"
    /\ streams' = [streams EXCEPT ![s].pc = "release",
                                  ![s].frame = FrameCopy(latest_frame, s)]
    /\ UNCHANGED <<engine_side, frames, camera, init_error, reconnect, face_system, latest_frame,
                   lock, run_processing, main, capture>>

\* lines 153-154: the with block is left, the lock is released
StreamRelease(s) ==
    /\ streams[s].pc = "release"
    /\ lock' = "free"
    /\ streams' = [streams EXCEPT ![s].pc = "process"]
    /\ UNCHANGED <<engine_side, frames, camera, init_error, reconnect, face_system, latest_frame,
                   run_processing, main, capture>>

\* lines 156-157, and process_frame, lines 206-208: with an engine,
\* process_frame finds the faces `faces` in the frame and sets
\* last_detected_names = []; a frame without a face is returned as it is
StreamProcess(s, faces) ==
    /\ streams[s].pc = "process"
    /\ IF face_system
       THEN /\ streams' = [streams EXCEPT ![s].pc = IF faces = <<>> THEN "encode" ELSE "face",
                                          ![s].faces = faces]
            /\ last_detected_names' = <<>>
       ELSE /\ faces = <<>>
            /\ streams' = [streams EXCEPT ![s].pc = "encode"]
            /\ UNCHANGED last_detected_names
    /\ UNCHANGED <<engine_side, shown, camera, init_error, reconnect, face_system,
                   latest_frame, lock, run_processing, main, capture>>

\* process_frame, lines 210-235: the next face is named, appended to
\* self.last_detected_names and drawn on the array process_frame was given;
\* after the last one that array is returned.  The engine the app constructs
\* here is never trained, so recognizer.predict of line 215 is not called.
StreamFace(s) ==
    /\ streams[s].pc = "face"
    /\ \E entry \in {Recognize(name_map, is_trained, Head(streams[s].faces))} :
          /\ streams' = [streams EXCEPT ![s] = [@ EXCEPT
                            !.pc = IF Len(streams[s].faces) = 1 THEN "encode" ELSE "face",
                            !.faces = Tail(@),
                            !.frame = Draw(@, <<Annotation(entry)>>)]]
          /\ latest_frame' = IF SameArray(streams[s].frame, latest_frame)
                             THEN Draw(latest_frame, <<Annotation(entry)>>)
                             ELSE latest_frame
          /\ last_detected_names' = Append(last_detected_names, entry)
    /\ UNCHANGED <<engine_side, shown, camera, init_error, reconnect, face_system, lock,
                   run_processing, main, capture>>

\* lines 164-169 and 172-174: cv2.imencode succeeds and the bytes are yielded,
\* or returns ret = False, or raises; frame is not used again before the next
\* iteration rebinds it
StreamEncode(s, outcome) ==
    /\ streams[s].pc = "encode"
    /\ streams' = [streams EXCEPT ![s] = [@ EXCEPT
                      !.pc = IF outcome = "encoded" THEN "yield" ELSE "loop",
                      !.frame = NoFrame]]
    /\ UNCHANGED <<engine_side, frames, camera, init_error, reconnect, face_system, latest_frame,
                   lock, run_processing, main, capture>>

\* line 168: the response asks for the next part and the generator goes on
StreamResume(s) ==
    /\ streams[s].pc = "yield"
    /\ streams' = [streams EXCEPT ![s].pc = "loop"]
    /\ UNCHANGED <<engine_side, frames, camera, init_error, reconnect, face_system, latest_frame,
                   lock, run_processing, main, capture>>

\* line 168: the client has gone and the response closes the generator;
\* GeneratorExit is not an Exception, the generator ends
StreamClose(s) ==
    /\ streams[s].pc = "yield"
    /\ streams' = [streams EXCEPT ![s].pc = "exited"]
    /\ UNCHANGED <<engine_side, frames, camera, init_error, reconnect, face_system, latest_frame,
                   lock, run_processing, main, capture>>

\* the steps of the capture thread, and of one stream whose frames show the
\* faces of `seen`
CaptureStep ==
    \/ CaptureLoop
    \/ CaptureCamera
    \/ \E outcome \in ReadOutcomes : CaptureRead(outcome)
    \/ CaptureAcquire
    \/ CaptureStore
    \/ CaptureRelease
StreamStep(s, seen) ==
    \/ StreamLoop(s) \/ StreamTest(s) \/ StreamErrorText(s) \/ StreamFrameTest(s)
    \/ StreamAcquire(s) \/ StreamCopy(s) \/ StreamRelease(s)
    \/ \E faces \in seen : StreamProcess(s, faces)
    \/ StreamFace(s)
    \/ \E outcome \in EncodeOutcomes : StreamEncode(s, outcome)
    \/ StreamResume(s) \/ StreamClose(s)

\* ----------------------------------------------------------- specifications
\* One engine driven by one caller at a time: the calls of the class and the
\* DELETE route.  Writes of face_database.pkl succeed (nothing here reads the
\* file back) and so does os.remove; recognizer.save may fail.  Here and in
\* the specifications after SpecTrain, every sample file that is there decodes
\* and recognizer.train returns.
Next ==
    \/ Tick
    \/ \E img \in Images, name \in Names : DoRegisterFace(img, name, "saved")
    \/ \E modelOk \in BOOLEAN : DoTrainModel(modelOk, {}, TRUE)
    \/ \E name \in Names : DoDeleteUser(name, {}, "saved")
    \/ \E name \in Names, modelOk \in BOOLEAN :
           RouteDeleteUser(name, {}, "saved", modelOk, {}, TRUE)

Spec == Init /\ [][Next]_vars

\* Training in every way it can go: the store is filled from one-face images
\* of two people and emptied by delete_user; at each train_model any of the
\* sample files may fail to decode, recognizer.train may raise and
\* recognizer.save may fail.
Trainees == { <<"A", "l">>, <<"B", "o">> }
NextTrain ==
    \/ Tick
    \/ \E name \in Trainees : DoRegisterFace(<<1, 0>>, name, "saved")
    \/ \E modelOk, fitOk \in BOOLEAN : \E bad \in SUBSET ImagePaths(face_data) :
           DoTrainModel(modelOk, bad, fitOk)
    \/ \E name \in Trainees : DoDeleteUser(name, {}, "saved")

SpecTrain == Init /\ [][NextTrain]_vars

\* The calls of the class when os.remove may fail on any of the files
\* delete_user asks it to remove; the store is filled from one-face images.
NextRemove ==
    \/ Tick
    \/ \E name \in Names : DoRegisterFace(<<1, 0>>, name, "saved")
    \/ DoTrainModel(TRUE, {}, TRUE)
    \/ \E name \in Names : \E stuck \in SUBSET FilesOf(name) :
           DoDeleteUser(name, stuck, "saved")

SpecRemove == Init /\ [][NextRemove]_vars

\* The engine restarted: a second FaceRecognitionSystem constructed over the
\* files the first one wrote.
NextReload ==
    \/ Tick
    \/ \E img \in Images, name \in Names, how \in SaveOutcomes :
           DoRegisterFace(img, name, how)
    \/ \E modelOk \in BOOLEAN : DoTrainModel(modelOk, {}, TRUE)
    \/ \E name \in Names, how \in SaveOutcomes : DoDeleteUser(name, {}, how)
    \/ Reload

SpecReload == Init /\ [][NextReload]_vars

\* The stream: the engine is set up by its calls and then handed one frame.
\* process_frame writes last_detected_names and the frame only, which no call
\* of the engine reads.  The faces that follow the one predict raises on are
\* never looked at, so the frame ends with that face.
NextFrame ==
    \/ /\ last.op # "process"
       /\ \/ \E name \in Names : DoRegisterFace(<<1, 0>>, name, "saved")
          \/ DoTrainModel(TRUE, {}, TRUE)
          \/ \E name \in Names : DoDeleteUser(name, {}, "saved")
    \/ /\ last.op # "process"
       /\ \E frame \in Frames : \E failAt \in {0, Len(frame)} :
              DoProcessFrame(frame, failAt)

SpecFrame == Init /\ [][NextFrame]_vars

\* The engine restarted over a face_database.pkl that was damaged while it
\* was down.
NextDamaged ==
    \/ \E name \in Names : DoRegisterFace(<<1, 0>>, name, "saved")
    \/ DoTrainModel(TRUE, {}, TRUE)
    \/ \E name \in Names : DoDeleteUser(name, {}, "saved")
    \/ \E kind \in DamagedKinds : DamageDatabase(kind)
    \/ Reload

SpecDamaged == Init /\ [][NextDamaged]_vars

\* Two request threads on one engine.  The engine is first brought to some
\* state by calls made one at a time; then two requests arrive together and
\* their statements interleave in every order, with the clock running.
NextConc ==
    \/ /\ ~at_fork.forked
       /\ \/ \E name \in Names : DoRegisterFace(<<1, 0>>, name, "saved")
          \/ DoTrainModel(TRUE, {}, TRUE)
    \/ Tick
    \/ Fork
    \/ \E t \in Threads :
          \/ RegisterLookup(t) \/ RegisterNext(t) \/ RegisterNewId(t) \/ RegisterInsert(t)
          \/ RegisterStamp(t) \/ RegisterWrite(t)
          \/ SaveOpen(t) \/ SaveDump(t) \/ SaveClose(t)
          \/ DeleteFind(t) \/ DeleteNext(t) \/ DeleteListdir(t) \/ DeleteRemove(t)
          \/ DeleteDel(t) \/ RouteAfterDelete(t) \/ RouteForget(t)
          \/ TrainList(t) \/ TrainRead(t) \/ TrainEnter(t) \/ TrainLeave(t)
          \/ TrainSave(t) \/ TrainClock(t) \/ TrainStamp(t) \/ TrainMark(t)

SpecConc == Init /\ [][NextConc]_vars

\* The video stream during a retrain: the engine is set up by calls made one
\* at a time, then a POST /retrain is served on a request thread while the
\* stream thread runs process_frame on its frames.
NextStream ==
    \/ /\ ~at_fork.forked
       /\ \/ \E name \in Names : DoRegisterFace(<<1, 0>>, name, "saved")
          \/ DoTrainModel(TRUE, {}, TRUE)
    \/ RetrainRequest
    \/ \E t \in Threads :
          \/ TrainList(t) \/ TrainRead(t) \/ TrainEnter(t) \/ TrainLeave(t)
          \/ TrainSave(t) \/ TrainClock(t) \/ TrainStamp(t) \/ TrainMark(t)
    \/ \E n \in 0..MaxBoxes : ProcessBegin(n)
    \/ ProcessCheck
    \/ \E answer \in Predictions : ProcessPredicted(answer)
    \/ ProcessRaised

SpecStream == Init /\ [][NextStream]_vars

\* The app around the engine: startup, a camera reconnect request at a time,
\* the capture thread, the stream_generator of each /video_feed response in
\* `served`, and the shutdown; the streamed frames are those of `seen`.
AppStep(seen, served) ==
    \/ \E cam \in CameraStates : Startup(cam)
    \/ ReconnectArrive
    \/ ReconnectRelease
    \/ \E outcome \in OpenOutcomes : ReconnectOpen(outcome)
    \/ \E works \in BOOLEAN : ReconnectCheck(works)
    \/ ReconnectDrop
    \/ ReconnectClear
    \/ ReconnectFail
    \/ \E s \in served : StreamStart(s)
    \/ Shutdown
    \/ Join
    \/ CaptureStep
    \/ \E s \in served : StreamStep(s, seen)

\* the streamed frames show no face or one face; two responses are served
Seen == { f \in Frames : Len(f) <= 1 }
NextApp == AppStep(Seen, Streams)

SpecApp == Init /\ [][NextApp]_vars

\* The same under fair scheduling: a thread that can take a step eventually
\* takes one, and a response eventually asks its generator for the next part
\* or closes it.  One /video_feed response is served.
NextAppFair == AppStep(Seen, Viewer)

SpecAppFair ==
    /\ Init /\ [][NextAppFair]_vars
    /\ WF_vars(CaptureStep)
    /\ \A s \in Viewer : WF_vars(StreamStep(s, Seen))
    /\ WF_vars(Join)

\* ------------------------------------------------------------------ claims
\* Every step of a specification is one call, and `last` names it: its kind,
\* what the environment did to it and, for a call that succeeded, the name it
\* was given.
Card(S) == Cardinality(S)
Samples == ImagePaths(face_data)
Clamp(x) == IF x < 0 THEN 0 ELSE IF x > 100 THEN 100 ELSE x

\* C1: every id register_face newly assigns is strictly greater than every id
\* assigned before it on this engine, ids of deleted identities included.
C1_IdsStrictlyIncrease ==
    [][\A p \in Keys(name_map') \ Keys(name_map) : p > max_assigned]_vars

\* C2: after a run of register_face, train_model and delete_user that left both
\* face_database.pkl and recognizer.yml on disk, constructing a fresh engine
\* over those files succeeds and has the same names and the same is_trained.
C2_RoundTrip ==
    (last.op = "reload" /\ db_file.exists /\ model_file)
        => /\ fresh.built /\ ~fresh.raised
           /\ Values(fresh.name_map) = Values(name_map)
           /\ fresh.is_trained = is_trained

\* C3: register_face on a one-face image succeeds; with a name that matches no
\* registered name it adds exactly one identity and one sample file, and with a
\* name that matches one (ignoring case) it adds no identity and exactly one
\* sample file, carrying the existing identity's id.
C3_RegisterOneFace ==
    [][(last'.op = "register" /\ last'.faces = 1)
          => /\ ret'.ok
             /\ Card(face_data') = Card(face_data) + 1
             /\ IF \A i \in DOMAIN name_map : Lower(name_map[i].pname) # Lower(last'.name)
                THEN Len(name_map') = Len(name_map) + 1
                ELSE /\ name_map' = name_map
                     /\ \A f \in face_data' \ face_data :
                          \E i \in DOMAIN name_map :
                             /\ Lower(name_map[i].pname) = Lower(last'.name)
                             /\ SampleId(f) = name_map[i].pid]_vars

\* C4: register_face on an image with zero or with two or more detected faces
\* returns (False, message), the message holding the detected count, and
\* leaves the identity map and the sample store as they were.
C4_RejectsOtherCounts ==
    [][(last'.op = "register" /\ last'.faces # 1)
          => /\ ~ret'.ok
             /\ Contains(ret'.msg, Digits(last'.faces))
             /\ name_map' = name_map
             /\ face_data' = face_data]_vars

C4_Witness ==
    /\ last.op = "register" /\ last.faces = 2 /\ ~ret.ok
    /\ Len(name_map) > 0 /\ face_data # {}

\* C5: train_model called when the store holds at least 2 samples, all of
\* which decode, and recognizer.train returns, returns success, sets
\* is_trained and sets last_trained to the time of this call.
C5_TrainAlwaysStamps ==
    [][(last'.op = "train" /\ Card(FaceSamples(Samples, last'.failed)) >= 2
                           /\ last'.fitted)
          => (ret'.ok /\ is_trained' /\ last_trained' = now)]_vars

\* C6: train_model with 0 or 1 samples in the store returns (False, message)
\* and leaves is_trained, last_trained and the classifier as they were,
\* whether or not the engine was trained before.
C6_TrainTooFew ==
    [][(last'.op = "train" /\ Card(Samples) <= 1)
          => /\ ~ret'.ok /\ Len(ret'.msg) > 0
             /\ is_trained' = is_trained
             /\ last_trained' = last_trained
             /\ recognizer' = recognizer
             /\ model_file' = model_file]_vars

C6_Witness ==
    /\ last.op = "train" /\ ~ret.ok
    /\ last.was_trained /\ is_trained
    /\ Card(Samples) = 1

\* C7: after FaceRecognitionSystem.delete_user has removed the only remaining
\* identity, no identity is left and is_trained is false, also when it was
\* true before the call.
C7_EngineDeleteForgets ==
    (last.op = "delete" /\ ret.ok /\ Len(name_map) = 0) => ~is_trained

\* the identities other than pid are the same in nm2 as in nm1
OthersKept(nm1, nm2, pid) ==
    /\ Keys(nm2) = Keys(nm1) \ {pid}
    /\ \A q \in Keys(nm2) : Get(nm2, q, Unknown) = Get(nm1, q, Unknown)

ClassifierKept ==
    /\ is_trained' = is_trained
    /\ last_trained' = last_trained
    /\ recognizer' = recognizer
    /\ model_file' = model_file

\* C8, as claimed: delete_user on a registered name while other identities
\* remain removes that identity and exactly the sample files whose id is that
\* identity's, and leaves every other identity, every other sample file,
\* is_trained, last_trained and the classifier as they were.
C8_DeleteRemovesAll ==
    [][(last'.op = "delete" /\ ret'.ok /\ Len(name_map) > 1)
          => /\ Lower(Get(name_map, last'.pid, Unknown)) = Lower(last'.name)
             /\ OthersKept(name_map, name_map', last'.pid)
             /\ face_data' = { f \in face_data : SampleId(f) # last'.pid }
             /\ ClassifierKept]_vars

\* C8, amended: ... removes that identity and, of the sample files whose id is
\* that identity's, exactly those on which os.remove does not fail, and leaves
\* every other identity, every other sample file, is_trained, last_trained and
\* the classifier as they were.
C8_DeleteFrame ==
    [][(last'.op = "delete" /\ ret'.ok /\ Len(name_map) > 1)
          => /\ Lower(Get(name_map, last'.pid, Unknown)) = Lower(last'.name)
             /\ OthersKept(name_map, name_map', last'.pid)
             /\ face_data' = { f \in face_data :
                                 SampleId(f) # last'.pid \/ f \in last'.failed }
             /\ ClassifierKept]_vars

C8_Witness ==
    /\ last.op = "delete" /\ ret.ok
    /\ Len(name_map) > 0 /\ face_data # {}
    /\ is_trained /\ last.failed = {}

\* C9: for every face process_frame handles while is_trained, and every integer
\* distance the classifier returns, the recorded confidence is
\* clamp(100 - distance, 0, 100), lies in 0..100, and the face is given a name
\* other than "Unknown" only if the confidence exceeds 65.
C9_ConfidenceClamp ==
    (last.op = "process" /\ is_trained)
        => \A i \in DOMAIN last_detected_names :
              LET entry == last_detected_names[i]
                  dist == last.frame[i].dist
              IN  /\ entry[2] \in 0..100
                  /\ entry[1] # Unknown => entry[2] > 65
                  /\ dist % 2 = 0 => entry[2] = Clamp(100 - (dist \div 2))

C9_Witness ==
    /\ last.op = "process" /\ is_trained
    /\ \E i, j \in DOMAIN last_detected_names :
          /\ last_detected_names[i][1] # Unknown /\ last_detected_names[i][2] = 100
          /\ last_detected_names[j][1] = Unknown /\ last_detected_names[j][2] = 0

\* a name_map as the dict it is: insertion order is no part of its value
AsDict(nm) == { <<nm[i].pid, nm[i].pname>> : i \in DOMAIN nm }

AllReturned == at_fork.forked /\ \A t \in Threads : threads[t].pc = "done"

\* the call of thread t run alone, start to end, on the store st, with the
\* clock reading thread t took
RunAlone(st, t) ==
    LET c == threads[t].call
        reg == RegisterFace(st.name_map, st.face_data, c.img, c.name, threads[t].ts)
        del == DeleteUser(st.name_map, st.face_data, c.name, {})
    IN  IF c.op = "register" THEN [name_map |-> reg.name_map, face_data |-> reg.face_data]
        ELSE IF c.op = "delete" THEN [name_map |-> del.name_map, face_data |-> del.face_data]
        ELSE st

Serial(first, second) ==
    RunAlone(RunAlone([name_map |-> at_fork.name_map, face_data |-> at_fork.face_data],
                      first), second)

SameStore(st) == AsDict(name_map) = AsDict(st.name_map) /\ face_data = st.face_data

\* both threads registered a one-face image under a name new at the fork
BothRegisterNew ==
    \A t \in Threads :
        /\ threads[t].call.op = "register"
        /\ DetectFaces(threads[t].call.img) = 1
        /\ FindByName(at_fork.name_map, threads[t].call.name) = None

\* C10: when two calls among register_face, train_model and delete_user made
\* from two threads have both returned, name_map and the sample files are what
\* one of the two serial orders of the same calls leaves; two registrations of
\* two distinct new names leave two more identities under distinct ids, and two
\* registrations of one new name leave exactly one more identity.
C10_Serializable ==
    AllReturned =>
       /\ SameStore(Serial(1, 2)) \/ SameStore(Serial(2, 1))
       /\ BothRegisterNew =>
             IF Lower(threads[1].call.name) # Lower(threads[2].call.name)
             THEN Cardinality(Keys(name_map)) = Cardinality(Keys(at_fork.name_map)) + 2
             ELSE Len(name_map) = Len(at_fork.name_map) + 1

\* C11: constructing a FaceRecognitionSystem over a face_database.pkl that is
\* unreadable or holds no dict completes without raising and yields an engine
\* with an empty name_map.
C11_DamagedLoadStartsEmpty ==
    (last.op = "reload" /\ db_file.exists /\ db_file.kind \in DamagedKinds)
        => /\ fresh.built /\ ~fresh.raised
           /\ fresh.name_map = <<>>

\* C12: whenever process_frame gives a face a registered name, found under the
\* id the classifier predicted, the identity of that id is the one that owned
\* it when the classifier was last trained, not one registered since: a label
\* learned for one person is never shown under a later-registered person's name.
C12_NoDrift ==
    (last.op = "process" /\ is_trained)
        => \A i \in DOMAIN last_detected_names :
              last_detected_names[i][1] # Unknown
                 => last.frame[i].label \notin new_since

\* C13: after any sequence of register_face and delete_user calls made one at a
\* time, no two identities share an id and no two identities have names that
\* are equal when case is ignored.
C13_UniqueIdsAndNames ==
    \A i, j \in DOMAIN name_map :
        i # j => /\ name_map[i].pid # name_map[j].pid
                 /\ Lower(name_map[i].pname) # Lower(name_map[j].pname)

\* register_face was given a registered name in another case, on an engine
\* with two identities, and added no identity
C13_Witness ==
    /\ last.op = "register" /\ ret.ok /\ ~last.created
    /\ Len(name_map) = 2
    /\ last.name \notin Values(name_map)

\* C14: while process_frame runs on the stream thread and train_model on a
\* request thread, recognizer.predict is never inside its call while
\* recognizer.train is inside its own on the same recognizer.
C14_NoPredictDuringTrain ==
    ~(training /\ inference.pc = "predicting")

\* C15: when recognizer.predict raises inside process_frame, on whichever face
\* of the frame, the frame process_frame returns is the input frame as it was
\* given: no box and no label drawn during the call is on it.
C15_ErrorLeavesFrameClean ==
    (last.op = "process" /\ is_trained /\ last.failAt > 0) => shown = <<>>

\* C16: after the DELETE /users/<name> route has returned success, either
\* is_trained is false or the classifier is the one trained on exactly the
\* sample files that remain, however many identities and samples remain.
C16_RouteDeleteRetrains ==
    (last.op = "route_delete" /\ ret.ok)
        => (~is_trained \/ recognizer = Labels(Samples))

\* C17: after any sequence of register_face, train_model and delete_user calls
\* made one at a time, with every os.remove succeeding, each sample file
\* carries the id of an identity that is registered now.
C17_NoOrphanSamples ==
    \A f \in Samples : SampleId(f) \in Keys(name_map)

\* an identity was deleted and the samples of another one are still there
C17_Witness ==
    /\ last.op = "delete" /\ ret.ok
    /\ Len(name_map) = 1
    /\ Samples # {}

\* who is inside a `with lock:` block: at the statement that writes or copies
\* latest_frame, or at the end of the block
InsideLock(who) ==
    IF who = "capture" THEN capture.pc \in {"store", "release"}
    ELSE streams[who].pc \in {"copy", "release"}

\* C18 (as stated): the capture thread and the streams read and write
\* latest_frame only with the lock held: the thread at the store of line 129,
\* at the copy of line 154 or at the test of line 152 holds the lock.
C18_EveryAccessLocked ==
    /\ \A who \in Streams \cup {"capture"} : InsideLock(who) => lock = who
    /\ \A s \in Streams : streams[s].pc = "frame" => lock = s

\* C18 (amended): latest_frame is written by capture_frames and copied by
\* stream_generator only with the lock held, so no copy is taken while the
\* frame is being replaced; the `latest_frame is not None` test of
\* stream_generator reads it without the lock.  A stream annotates and encodes
\* an array of its own, and the array latest_frame refers to never carries a
\* drawing.
C18_SharedFrameKeptClean ==
    /\ \A who \in Streams \cup {"capture"} : InsideLock(who) => lock = who
    /\ \A s \in Streams :
          streams[s].pc \in {"release", "process", "face", "encode"} => streams[s].frame.buf = s
    /\ latest_frame.drawn = <<>>

\* the capture thread has stored a camera picture in latest_frame; a stream
\* has copied it under the lock, had process_frame draw on the copy and is
\* about to encode the copy, while latest_frame still holds the picture with
\* nothing drawn on it and the capture thread waits to replace it
C18_Witness ==
    \E s \in Streams :
        /\ latest_frame # NoFrame
        /\ latest_frame.shot >= 0
        /\ streams[s].pc = "encode"
        /\ streams[s].frame.buf = s
        /\ streams[s].frame.shot = latest_frame.shot
        /\ streams[s].frame.drawn # <<>>
        /\ latest_frame.drawn = <<>>
        /\ capture.pc = "acquire"

\* C19: under fair scheduling, with camera reads that return, once
\* run_processing has been set to false the capture_frames loop ends, every
\* stream_generator that was started ends, and the join of the capture thread
\* at shutdown returns, whatever state the camera is in.
C19_ShutdownTerminates ==
    (~run_processing) ~> (/\ capture.pc = "exited"
                          /\ \A s \in Streams : streams[s].pc \in {"out", "exited"}
                          /\ main = "joined")

\* the capture thread had stored a frame; the shutdown has joined it and
\* released the camera, and a stream has left its loop
C19_Witness ==
    /\ main = "joined"
    /\ capture.pc = "exited"
    /\ camera # "open"
    /\ latest_frame # NoFrame
    /\ \E s \in Streams : streams[s].pc = "exited"

====
